---- MODULE Spec2Model ----
(***************************************************************************)
(* Model of the /analyze request handler of app.py (Flask).                *)
(*                                                                         *)
(* Process-wide state: the unpickled artifact (vectorizer + classifier),   *)
(* the symptom label list and the behaviour of the installed pandas.       *)
(* Per-request state: the locals of analyze() and its position.            *)
(*                                                                         *)
(* Values.  A Python value that a cell, a counter or a score can hold is a *)
(* record [kind, num, str]:                                                *)
(*   kind "num"  a number (int or float); scores are held in TENTHS, so    *)
(*               the float 119.5 is num = 1195;                            *)
(*   kind "str"  a string;                                                 *)
(*   kind "nan"  float('nan');                                             *)
(*   kind "none" None;                                                     *)
(*   kind "empty" an empty cell of the uploaded CSV text (input only).     *)
(* Tenths order the scores as the floats do: on the multi-row tables used  *)
(* here only views and the text differ between rows, so two rows have the  *)
(* same tenths exactly when the float expression yields the same double.   *)
(* Each entry of results carries a ghost field row, the index of the CSV   *)
(* row it was built from; the program does not store it.                   *)
(***************************************************************************)
EXTENDS Integers, Sequences, FiniteSets, TLC

VARIABLES loaded_obj, symptom_labels, pandas_casts_to_object, req

vars == <<loaded_obj, symptom_labels, pandas_casts_to_object, req>>

(***************************************************************************)
(* Bounds                                                                  *)
(***************************************************************************)
MaxRows == 3
MaxCount == 1

Slots == {1, 2}

(***************************************************************************)
(* Python values                                                           *)
(***************************************************************************)
Num(n) == [kind |-> "num", num |-> n, str |-> ""]
Str(s) == [kind |-> "str", num |-> 0, str |-> s]
NaN == [kind |-> "nan", num |-> 0, str |-> ""]
None == [kind |-> "none", num |-> 0, str |-> ""]
Empty == [kind |-> "empty", num |-> 0, str |-> ""]

\* bool(x) of a Python value: None, 0 and "" are falsy; nan is truthy.
Truthy(x) ==
    CASE x.kind = "none" -> FALSE
      [] x.kind = "num" -> x.num # 0
      [] x.kind = "str" -> x.str # ""
      [] OTHER -> TRUE

\* x < y on floats: false whenever either side is nan.
IsLT(x, y) == x.kind = "num" /\ y.kind = "num" /\ x.num < y.num

Reverse(s) == [k \in 1..Len(s) |-> s[Len(s) + 1 - k]]

Range(s) == {s[k] : k \in 1..Len(s)}

RECURSIVE SeqsUpTo(_, _)
\* all sequences over S of length at most n
SeqsUpTo(S, n) ==
    IF n = 0 THEN {<<>>}
    ELSE LET shorter == SeqsUpTo(S, n - 1)
         IN shorter \cup {Append(q, x) : q \in {t \in shorter : Len(t) = n - 1}, x \in S}

(***************************************************************************)
(* Program constants                                                       *)
(***************************************************************************)
SymptomLabels == <<"respiratory", "fever", "fatigue", "pain", "gastrointestinal">>

required_columns ==
    {"tweetText", "tweetURL", "tweetAuthor", "handle", "geo", "createdAt",
     "replyCount", "quoteCount", "retweetCount", "likeCount", "views", "bookmarkCount"}

NoFileMessage == "No file provided"
ColumnsMessage == "CSV file must contain the following columns: "
InternalMessage == "Internal server error"

(***************************************************************************)
(* The unpickled artifact.  The vectorizer maps a text to a feature id and *)
(* raises on a document that is not a string; the classifier maps a        *)
(* feature id to its output row and, when min_samples = 1, raises on an    *)
(* empty batch.  The artifact is produced offline, so startup picks one.   *)
(***************************************************************************)
Texts == {"a", "b"}

Artifacts ==
    { [vectorizer |-> [t \in Texts |-> IF t = "a" THEN 1 ELSE 2],
       classifier |-> [f \in 1..2 |-> IF f = 1 THEN <<1, 0, 0, 0, 0>>
                                               ELSE <<1, 1, 1, 1, 1>>],
       min_samples |-> 1],
      [vectorizer |-> [t \in Texts |-> IF t = "a" THEN 1 ELSE 2],
       classifier |-> [f \in 1..2 |-> IF f = 1 THEN <<0, 1, 0, 1, 1>>
                                               ELSE <<0, 0, 0, 0, 0>>],
       min_samples |-> 1],
      [vectorizer |-> [t \in Texts |-> 1],
       classifier |-> [f \in 1..2 |-> <<0, 0, 0, 0, 0>>],
       min_samples |-> 0],
      [vectorizer |-> [t \in Texts |-> IF t = "a" THEN 1 ELSE 2],
       classifier |-> [f \in 1..2 |-> IF f = 1 THEN <<0, 0, 1, 0, 0, 0>>
                                               ELSE <<0, 0, 0, 0, 0, 1>>],
       min_samples |-> 1] }

(***************************************************************************)
(* Uploads                                                                 *)
(***************************************************************************)
CsvRow(text, geo, reply, retweet, like, view, quote, bookmark) ==
    [tweetText |-> text, tweetURL |-> Str("url"), tweetAuthor |-> Str("author"),
     handle |-> Str("handle"), geo |-> geo, createdAt |-> Str("date"),
     replyCount |-> reply, quoteCount |-> quote, retweetCount |-> retweet,
     likeCount |-> like, views |-> view, bookmarkCount |-> bookmark]

CounterCells == {Num(n) : n \in 0..MaxCount} \cup {Empty, Str("n/a")}
EchoCells == {Num(0), Num(MaxCount)}
GeoCells == {Empty, Num(0), Str("KE")}
TextCells == {Str(t) : t \in Texts}

\* one-row tables exercising the score
ScoreRows ==
    {CsvRow(Str("a"), Str("KE"), r, t, l, v, q, b) :
        r \in CounterCells, t \in CounterCells, l \in CounterCells,
        v \in CounterCells, q \in EchoCells, b \in EchoCells}

\* rows exercising the order of the result
SortRows ==
    {CsvRow(x, Str("KE"), Num(0), Num(0), Num(0), v, Num(0), Num(0)) :
        x \in TextCells, v \in {Num(0), Num(MaxCount), Empty}}

\* rows exercising the text and geo cells
GeoRows ==
    {CsvRow(x, g, Num(0), Num(0), Num(0), Num(0), Num(0), Num(0)) :
        x \in {Str("a"), Empty}, g \in GeoCells}

\* rows that differ only in the counters that are echoed
EchoRows ==
    {CsvRow(Str("a"), Str("KE"), Num(MaxCount), Num(0), Num(MaxCount), Num(0), q, b) :
        q \in EchoCells, b \in EchoCells}

\* rows of the requests handled concurrently
ConcRows ==
    {CsvRow(Str("a"), Str("KE"), Num(0), Num(0), Num(0), Num(MaxCount), Num(0), Num(0)),
     CsvRow(Str("b"), Empty, Num(0), Num(0), Num(0), Num(0), Num(0), Num(0))}

File(name, parses, columns, rows) ==
    [present |-> TRUE, filename |-> name, parses |-> parses,
     columns |-> columns, rows |-> rows]

NoFile == [present |-> FALSE, filename |-> "", parses |-> FALSE, columns |-> {}, rows |-> <<>>]

Table(rows) == File("tweets.csv", TRUE, required_columns, rows)

Tables ==
    {Table(<<r>>) : r \in ScoreRows}
    \cup {Table(q) : q \in SeqsUpTo(SortRows, MaxRows)}
    \cup {Table(q) : q \in SeqsUpTo(GeoRows, MaxRows - 1)}
    \cup {Table(<<q, r>>) : q \in EchoRows, r \in EchoRows}

\* requests that fail a validation check or cannot be parsed
OtherUploads ==
    { NoFile,
      File("", TRUE, required_columns, <<>>),
      File("", TRUE, required_columns \ {"geo"}, <<>>),
      File("tweets.csv", FALSE, {}, <<>>),
      File("tweets.csv", TRUE, required_columns \ {"geo"}, <<>>),
      File("tweets.csv", TRUE, {"tweetText"}, <<>>),
      File("tweets.csv", TRUE, required_columns \cup {"lang"}, <<>>) }

Uploads == Tables \cup OtherUploads

ConcUploads ==
    {NoFile, File("tweets.csv", TRUE, required_columns \ {"geo"}, <<>>)}
    \cup {Table(q) : q \in SeqsUpTo(ConcRows, 2)}


(***************************************************************************)
(* Library calls.  A call that can raise returns [raised, exc, value].     *)
(***************************************************************************)
Ok(v) == [raised |-> FALSE, exc |-> "", value |-> v]
Raised(e, v) == [raised |-> TRUE, exc |-> e, value |-> v]

\* dtype pandas infers for column c: any text makes it object, otherwise an
\* empty cell makes it float64, otherwise int64; no rows gives object.
ColumnDtype(rows, c) ==
    IF rows = <<>> \/ \E k \in 1..Len(rows) : rows[k][c].kind = "str" THEN "object"
    ELSE IF \E k \in 1..Len(rows) : rows[k][c].kind = "empty" THEN "float64"
    ELSE "int64"

\* the value read_csv stores for a cell of a column of the given dtype
ReadCell(dtype, cell) ==
    CASE cell.kind = "empty" -> NaN
      [] cell.kind = "num" /\ dtype = "object" -> Str(ToString(cell.num))
      [] OTHER -> cell

NoDf == [columns |-> {}, dtype |-> [c \in required_columns |-> "object"], rows |-> <<>>]

\* pd.read_csv(file)
read_csv(upload) ==
    IF ~upload.parses THEN Raised("EmptyDataError: No columns to parse from file", NoDf)
    ELSE LET dtype == [c \in required_columns |-> ColumnDtype(upload.rows, c)]
         IN Ok([columns |-> upload.columns,
                dtype |-> dtype,
                rows |-> [k \in 1..Len(upload.rows) |->
                            [c \in required_columns |->
                                ReadCell(dtype[c], upload.rows[k][c])]]])

\* df.where(pd.notnull(df), None): a null of an object column becomes None; a
\* null of a float64 column becomes None where pandas casts the column to
\* object, and stays nan where pandas keeps the column's dtype.
WhereNotnull(df, casts) ==
    [df EXCEPT !.rows =
        [k \in 1..Len(df.rows) |->
            [c \in required_columns |->
                IF df.rows[k][c].kind # "nan" THEN df.rows[k][c]
                ELSE IF df.dtype[c] = "object" \/ casts THEN None
                ELSE NaN]]]

\* df[c].tolist()
Column(df, c) == [k \in 1..Len(df.rows) |-> df.rows[k][c]]

\* vectorizer.transform(tweet_texts)
Transform(obj, tweet_texts) ==
    IF \E k \in 1..Len(tweet_texts) : tweet_texts[k].kind # "str"
    THEN Raised("AttributeError: object has no attribute 'lower'", <<>>)
    ELSE Ok([k \in 1..Len(tweet_texts) |-> obj.vectorizer[tweet_texts[k].str]])

\* classifier.predict(text_vector)
Predict(obj, text_vector) ==
    IF Len(text_vector) < obj.min_samples
    THEN Raised("ValueError: Found array with 0 sample(s)", <<>>)
    ELSE Ok([k \in 1..Len(text_vector) |-> obj.classifier[text_vector[k]]])

(***************************************************************************)
(* The body of the loop over the rows                                      *)
(***************************************************************************)
RECURSIVE LabelsFrom(_, _, _)
\* [labels[j] for j >= from if symptom_presence[j] == 1]
LabelsFrom(labels, symptom_presence, from) ==
    IF from > Len(symptom_presence) THEN <<>>
    ELSE IF symptom_presence[from] = 1
         THEN <<labels[from]>> \o LabelsFrom(labels, symptom_presence, from + 1)
         ELSE LabelsFrom(labels, symptom_presence, from + 1)

\* a symptom mutant: the label of every position, whatever its bit
M_AllLabels(labels, symptom_presence) ==
    IF Len(symptom_presence) > Len(labels)
    THEN Raised("IndexError: list index out of range", <<>>)
    ELSE Ok([j \in 1..Len(symptom_presence) |-> labels[j]])

DetectedSymptoms(labels, symptom_presence) ==
    IF \E j \in 1..Len(symptom_presence) : symptom_presence[j] = 1 /\ j > Len(labels)
    THEN Raised("IndexError: list index out of range", <<>>)
    ELSE Ok(LabelsFrom(labels, symptom_presence, 1))

\* a relevance mutant: only the first detected label counts
M_FirstLabelOnly(detected_symptoms) ==
    IF detected_symptoms # <<>> /\ detected_symptoms[1] = "respiratory" THEN 1 ELSE 0

\* int(any(detected_symptoms))
IsTb(detected_symptoms) ==
    IF \E k \in 1..Len(detected_symptoms) : detected_symptoms[k] # "" THEN 1 ELSE 0

\* a score mutant: quoteCount enters the score
M_ScoreWithQuote(row, is_tb) ==
    IF \E c \in {"replyCount", "retweetCount", "likeCount", "views"} :
            row[c].kind \in {"none", "str"}
    THEN Raised("TypeError: unsupported operand type(s) for *", NaN)
    ELSE IF \E c \in {"replyCount", "retweetCount", "likeCount", "views"} :
            row[c].kind = "nan"
    THEN Ok(NaN)
    ELSE Ok(Num(4 * row.replyCount.num + 3 * row.retweetCount.num
                + 2 * row.likeCount.num + 1 * row.views.num
                + (IF row.quoteCount.kind = "num" THEN row.quoteCount.num ELSE 0)
                + is_tb * 1000))

\* 0.4*reply + 0.3*retweet + 0.2*like + 0.1*views + is_tb*100, in tenths.
\* float * None and float * str raise TypeError; nan propagates.
ImportanceScore(row, is_tb) ==
    IF \E c \in {"replyCount", "retweetCount", "likeCount", "views"} :
            row[c].kind \in {"none", "str"}
    THEN Raised("TypeError: unsupported operand type(s) for *", NaN)
    ELSE IF \E c \in {"replyCount", "retweetCount", "likeCount", "views"} :
            row[c].kind = "nan"
    THEN Ok(NaN)
    ELSE Ok(Num(4 * row.replyCount.num + 3 * row.retweetCount.num
                + 2 * row.likeCount.num + 1 * row.views.num + is_tb * 1000))

\* geos[i] if geos[i] else None
GeoOut(geo) == IF Truthy(geo) THEN geo ELSE None

\* the dictionary appended for row i (row is the ghost index)
ResultRecord(i, row, detected_symptoms, is_tb, importance_score) ==
    [row |-> i,
     tweetText |-> row.tweetText, tweetURL |-> row.tweetURL,
     tweetAuthor |-> row.tweetAuthor, handle |-> row.handle,
     geo |-> GeoOut(row.geo), createdAt |-> row.createdAt,
     is_tb |-> (is_tb # 0), detected_symptoms |-> detected_symptoms,
     importance_score |-> importance_score,
     replyCount |-> row.replyCount, quoteCount |-> row.quoteCount,
     retweetCount |-> row.retweetCount, likeCount |-> row.likeCount,
     views |-> row.views, bookmarkCount |-> row.bookmarkCount]

(***************************************************************************)
(* list.sort(key=..., reverse=True) as CPython runs it on a short list:    *)
(* reverse the list, find the leading run (reversing it when it strictly   *)
(* descends), binary-insert the remaining elements using only <, and       *)
(* reverse the list again.                                                 *)
(***************************************************************************)
KeyLT(x, y) == IsLT(x.importance_score, y.importance_score)

RECURSIVE RunEnd(_, _, _)
\* length of the run that starts the list, given its first two elements
RunEnd(a, k, descending) ==
    IF k > Len(a) THEN k - 1
    ELSE IF KeyLT(a[k], a[k - 1]) = descending THEN RunEnd(a, k + 1, descending)
    ELSE k - 1

RECURSIVE Bisect(_, _, _, _)
\* position at which binarysort inserts pivot into the sorted prefix a[l..r-1]
Bisect(a, pivot, l, r) ==
    IF l >= r THEN l
    ELSE LET p == l + ((r - l) \div 2)
         IN IF KeyLT(pivot, a[p]) THEN Bisect(a, pivot, l, p)
            ELSE Bisect(a, pivot, p + 1, r)

RECURSIVE BinarySort(_, _)
\* a[1..start-1] is sorted; insert a[start], a[start+1], ... in turn
BinarySort(a, start) ==
    IF start > Len(a) THEN a
    ELSE LET l == Bisect(a, a[start], 1, start)
             b == [k \in 1..Len(a) |->
                     IF k < l \/ k > start THEN a[k]
                     ELSE IF k = l THEN a[start]
                     ELSE a[k - 1]]
         IN BinarySort(b, start + 1)

\* a sort mutant: the last element is lost
M_DropLast(results) ==
    IF results = <<>> THEN results ELSE SubSeq(results, 1, Len(results) - 1)

\* results.sort(key=lambda x: x['importance_score'], reverse=True)
SortDescending(results) ==
    IF Len(results) < 2 THEN results
    ELSE LET a == Reverse(results)
             descending == KeyLT(a[2], a[1])
             n == RunEnd(a, 3, descending)
             b == IF descending
                  THEN [k \in 1..Len(a) |-> IF k <= n THEN a[n + 1 - k] ELSE a[k]]
                  ELSE a
         IN Reverse(BinarySort(b, n + 1))


(***************************************************************************)
(* The request handler.  req[s] holds the locals of the call of analyze()  *)
(* running in worker s, its position pc, the exception in flight, the      *)
(* response it returned and what it wrote to the log.  calls is a ghost:   *)
(* the library calls the request has made.                                 *)
(***************************************************************************)
NoResponse == [status |-> 0, error |-> "", columns |-> {}, records |-> <<>>]

Frame(upload, pc) ==
    [pc |-> pc, upload |-> upload, df |-> NoDf, text_vector |-> <<>>,
     predictions |-> <<>>, i |-> 0, results |-> <<>>, exc |-> "",
     response |-> NoResponse, log |-> <<>>, calls |-> {}]

Init ==
    /\ loaded_obj \in Artifacts
    /\ symptom_labels = SymptomLabels
    /\ pandas_casts_to_object \in BOOLEAN
    /\ req = [s \in Slots |-> Frame(NoFile, "idle")]

Globals == <<loaded_obj, symptom_labels, pandas_casts_to_object>>

At(s, pc) == req[s].pc = pc

Set(s, r) == req' = [req EXCEPT ![s] = r] /\ UNCHANGED Globals

\* an exception propagates to the except clause
Raise(s, exc) == Set(s, [req[s] EXCEPT !.pc = "except", !.exc = exc])

\* return jsonify(...), status
Return(s, response) == Set(s, [req[s] EXCEPT !.pc = "done", !.response = response])

\* a request arrives at a worker that is not handling one
Receive(s, uploads) ==
    /\ At(s, "idle")
    /\ \E upload \in uploads : Set(s, Frame(upload, "check_file"))

\* the response has been sent; the worker is free for the next request
Release(s) ==
    /\ At(s, "done")
    /\ Set(s, Frame(NoFile, "idle"))

\* a validation mutant: the handler does not look at the file before parsing
M_NoFileCheck(s) ==
    /\ At(s, "check_file")
    /\ Set(s, [req[s] EXCEPT !.pc = "read_csv"])

\* file = request.files.get('file'); if not file: return 400.
\* A FileStorage with an empty filename is falsy.
CheckFile(s) ==
    /\ At(s, "check_file")
    /\ IF ~req[s].upload.present \/ req[s].upload.filename = ""
       THEN Return(s, [NoResponse EXCEPT !.status = 400, !.error = NoFileMessage])
       ELSE Set(s, [req[s] EXCEPT !.pc = "read_csv"])

\* df = pd.read_csv(file)
ReadCsv(s) ==
    /\ At(s, "read_csv")
    /\ LET r == read_csv(req[s].upload)
           called == [req[s] EXCEPT !.calls = @ \cup {"read_csv"}]
       IN IF r.raised
          THEN Set(s, [called EXCEPT !.pc = "except", !.exc = r.exc])
          ELSE Set(s, [called EXCEPT !.pc = "check_columns", !.df = r.value])

\* a validation mutant: any() where the handler has all()
M_AnyColumn(s) ==
    /\ At(s, "check_columns")
    /\ IF required_columns \cap req[s].df.columns = {}
       THEN Return(s, [NoResponse EXCEPT !.status = 400, !.error = ColumnsMessage,
                                         !.columns = required_columns])
       ELSE Set(s, [req[s] EXCEPT !.pc = "where"])

\* if not all(column in df.columns for column in required_columns): return 400
CheckColumns(s) ==
    /\ At(s, "check_columns")
    /\ IF ~(required_columns \subseteq req[s].df.columns)
       THEN Return(s, [NoResponse EXCEPT !.status = 400, !.error = ColumnsMessage,
                                         !.columns = required_columns])
       ELSE Set(s, [req[s] EXCEPT !.pc = "where"])

\* df = df.where(pd.notnull(df), None)
Where(s) ==
    /\ At(s, "where")
    /\ Set(s, [req[s] EXCEPT !.pc = "transform",
                             !.df = WhereNotnull(@, pandas_casts_to_object)])

\* tweet_texts = df['tweetText'].tolist(); ...; text_vector = vectorizer.transform(tweet_texts)
VectorizeTexts(s) ==
    /\ At(s, "transform")
    /\ LET r == Transform(loaded_obj, Column(req[s].df, "tweetText"))
           called == [req[s] EXCEPT !.calls = @ \cup {"transform"}]
       IN IF r.raised
          THEN Set(s, [called EXCEPT !.pc = "except", !.exc = r.exc])
          ELSE Set(s, [called EXCEPT !.pc = "predict", !.text_vector = r.value])

\* an isolation mutant: results is one list shared by the workers
M_SharedResults(s) == req[CHOOSE t \in Slots : t # s].results

\* results = []
InitResults(s) == <<>>

\* predictions = classifier.predict(text_vector); results = []
Classify(s) ==
    /\ At(s, "predict")
    /\ LET r == Predict(loaded_obj, req[s].text_vector)
           called == [req[s] EXCEPT !.calls = @ \cup {"predict"}]
       IN IF r.raised
          THEN Set(s, [called EXCEPT !.pc = "except", !.exc = r.exc])
          ELSE Set(s, [called EXCEPT !.pc = "loop", !.predictions = r.value,
                                     !.results = InitResults(s), !.i = 1])

\* one iteration of: for i, tweet in enumerate(tweet_texts): ... results.append({...})
ScoreRow(s) ==
    /\ At(s, "loop")
    /\ req[s].i <= Len(req[s].df.rows)
    /\ LET i == req[s].i
           row == req[s].df.rows[i]
           detected == DetectedSymptoms(symptom_labels, req[s].predictions[i])
           is_tb == IsTb(detected.value)
           score == ImportanceScore(row, is_tb)
       IN IF detected.raised THEN Raise(s, detected.exc)
          ELSE IF score.raised THEN Raise(s, score.exc)
          ELSE Set(s, [req[s] EXCEPT
                        !.i = i + 1,
                        !.results = Append(@, ResultRecord(i, row, detected.value,
                                                           is_tb, score.value))])

\* results.sort(key=lambda x: x['importance_score'], reverse=True)
SortResults(s) ==
    /\ At(s, "loop")
    /\ req[s].i > Len(req[s].df.rows)
    /\ Set(s, [req[s] EXCEPT !.pc = "log", !.results = SortDescending(@)])

\* app.logger.debug("Response Data: %s", json.dumps(results))
LogResponse(s) ==
    /\ At(s, "log")
    /\ Set(s, [req[s] EXCEPT
                !.pc = "respond",
                !.log = Append(@, [level |-> "DEBUG", message |-> "Response Data",
                                   data |-> req[s].results])])

\* response = jsonify(results); response.headers[...] = ...; return response
Respond(s) ==
    /\ At(s, "respond")
    /\ Return(s, [NoResponse EXCEPT !.status = 200, !.records = req[s].results])

\* a handler mutant: the 500 response carries the rows scored so far
M_PartialBody(results) ==
    [NoResponse EXCEPT !.status = 500, !.error = InternalMessage, !.records = results]

\* jsonify({'error': 'Internal server error'}), 500
ErrorBody(results) == [NoResponse EXCEPT !.status = 500, !.error = InternalMessage]

\* except Exception as e: app.logger.error(...); return jsonify({...}), 500
Except(s) ==
    /\ At(s, "except")
    /\ Set(s, [req[s] EXCEPT
                !.pc = "done",
                !.log = Append(@, [level |-> "ERROR", message |-> req[s].exc,
                                   data |-> <<>>]),
                !.response = ErrorBody(req[s].results)])

Handle(s) ==
    \/ CheckFile(s)
    \/ ReadCsv(s)
    \/ CheckColumns(s)
    \/ Where(s)
    \/ VectorizeTexts(s)
    \/ Classify(s)
    \/ ScoreRow(s)
    \/ SortResults(s)
    \/ LogResponse(s)
    \/ Respond(s)
    \/ Except(s)
    \/ Release(s)

\* one worker: requests are handled one after another
Next ==
    \/ Receive(1, Uploads)
    \/ Handle(1)

Spec == Init /\ [][Next]_vars

\* the host server runs one call of analyze() per worker, interleaved
NextConc ==
    \E s \in Slots :
        \/ Receive(s, ConcUploads)
        \/ Handle(s)

SpecConc == Init /\ [][NextConc]_vars


(***************************************************************************)
(* Properties                                                              *)
(***************************************************************************)
Done(s) == req[s].pc = "done"

Done200(s) == Done(s) /\ req[s].response.status = 200

\* the upload is a file that parses into a table with all twelve columns
ValidTable(u) ==
    u.present /\ u.filename # "" /\ u.parses /\ required_columns \subseteq u.columns

\* the upload is a file whose table lacks a required column
LacksColumn(u) == u.present /\ ~(required_columns \subseteq u.columns)

ScoreCounters == {"replyCount", "retweetCount", "likeCount", "views"}

\* position of a label in the fixed label list
LabelIndex(l) == CHOOSE j \in 1..Len(SymptomLabels) : SymptomLabels[j] = l

\* what pandas holds for the geo cell of CSV row k, before nulls are replaced
ParsedGeo(u, k) == ReadCell(ColumnDtype(u.rows, "geo"), u.rows[k].geo)

----------------------------------------------------------------------------
----------------------------------------------------------------------------
\* C2: in a 200 response every record's score, in tenths, is
\* 4*reply + 3*retweet + 2*like + views + 1000*is_tb of its own row (nan when
\* one of those counters is nan), and records that agree on those counters
\* and on is_tb have the same score whatever quoteCount and bookmarkCount are.
C2_ScoreFormula ==
    \A s \in Slots :
        Done200(s) =>
            LET records == req[s].response.records
            IN /\ \A k \in 1..Len(records) :
                    LET rec == records[k]
                        row == req[s].df.rows[rec.row]
                    IN /\ \A c \in ScoreCounters : rec[c] = row[c]
                       /\ \A c \in ScoreCounters : row[c].kind \in {"num", "nan"}
                       /\ (\A c \in ScoreCounters : row[c].kind = "num") =>
                            rec.importance_score =
                                Num(4 * row.replyCount.num + 3 * row.retweetCount.num
                                    + 2 * row.likeCount.num + row.views.num
                                    + (IF rec.is_tb THEN 1000 ELSE 0))
                       /\ (\E c \in ScoreCounters : row[c].kind = "nan") =>
                            rec.importance_score = NaN
               /\ \A j, k \in 1..Len(records) :
                    (/\ \A c \in ScoreCounters : records[j][c] = records[k][c]
                     /\ records[j].is_tb = records[k].is_tb) =>
                        records[j].importance_score = records[k].importance_score

C2_Witness ==
    \E s \in Slots :
        /\ Done200(s)
        /\ Len(req[s].response.records) = 2
        /\ req[s].response.records[1].quoteCount # req[s].response.records[2].quoteCount
        /\ req[s].response.records[1].bookmarkCount # req[s].response.records[2].bookmarkCount
        /\ req[s].response.records[1].is_tb
        /\ req[s].response.records[1].importance_score = Num(6 * MaxCount + 1000)

----------------------------------------------------------------------------
\* C3: the array of a 200 response is the stable descending sort by score: no
\* record precedes a record of strictly greater score, and records of equal
\* score keep the order of their rows.
C3_SortedStable ==
    \A s \in Slots :
        Done200(s) =>
            LET records == req[s].response.records
            IN /\ \A j, k \in 1..Len(records) :
                    j < k => ~IsLT(records[j].importance_score,
                                   records[k].importance_score)
               /\ \A j, k \in 1..Len(records) :
                    (j < k /\ records[j].importance_score = records[k].importance_score) =>
                        records[j].row < records[k].row

----------------------------------------------------------------------------
\* C4: in a 200 response is_tb holds exactly when detected_symptoms is not
\* empty, which is exactly when the classifier's row has a position equal to 1.
C4_IsTbIffDetected ==
    \A s \in Slots :
        Done200(s) =>
            \A k \in 1..Len(req[s].response.records) :
                LET rec == req[s].response.records[k]
                    presence == req[s].predictions[rec.row]
                IN /\ rec.is_tb <=> (rec.detected_symptoms # <<>>)
                   /\ rec.is_tb <=> (\E j \in 1..Len(presence) : presence[j] = 1)

C4_Witness ==
    \E s \in Slots :
        /\ Done200(s)
        /\ \E k \in 1..Len(req[s].response.records) :
              /\ req[s].response.records[k].is_tb
              /\ req[s].predictions[req[s].response.records[k].row][1] = 0
        /\ \E k \in 1..Len(req[s].response.records) :
              ~req[s].response.records[k].is_tb

----------------------------------------------------------------------------
\* C5: in a 200 response detected_symptoms holds exactly the labels of the
\* fixed list whose bit in the classifier's row is 1, each once, in the order
\* of the list.
C5_DetectedLabels ==
    \A s \in Slots :
        Done200(s) =>
            \A k \in 1..Len(req[s].response.records) :
                LET rec == req[s].response.records[k]
                    detected == rec.detected_symptoms
                    presence == req[s].predictions[rec.row]
                IN /\ Range(detected) =
                        {SymptomLabels[j] : j \in {i \in 1..Len(SymptomLabels) :
                                                i <= Len(presence) /\ presence[i] = 1}}
                   /\ \A p, q \in 1..Len(detected) :
                        p < q => LabelIndex(detected[p]) < LabelIndex(detected[q])

C5_Witness ==
    \E s \in Slots :
        /\ Done200(s)
        /\ \E k \in 1..Len(req[s].response.records) :
              req[s].response.records[k].detected_symptoms
                  = <<"fever", "pain", "gastrointestinal">>

----------------------------------------------------------------------------
\* C6: a request without a file ends with status 400 and the error
\* "No file provided", and it never parses, vectorizes or classifies.
C6_NoFile ==
    \A s \in Slots :
        (req[s].pc # "idle" /\ ~req[s].upload.present) =>
            /\ req[s].pc \in {"check_file", "done"}
            /\ req[s].calls = {}
            /\ Done(s) => req[s].response =
                            [NoResponse EXCEPT !.status = 400, !.error = NoFileMessage]

C6_Witness == \E s \in Slots : Done(s) /\ ~req[s].upload.present

----------------------------------------------------------------------------
\* C7 (as stated): a request whose uploaded CSV lacks a required column ends
\* with status 400 and the message listing the required columns, and the
\* classifier is not run.
C7_MissingColumnAlways400 ==
    \A s \in Slots :
        LacksColumn(req[s].upload) =>
            /\ "predict" \notin req[s].calls
            /\ Done(s) => /\ req[s].response.status = 400
                          /\ req[s].response.error = ColumnsMessage
                          /\ req[s].response.columns = required_columns

\* C7 (amended): a request whose file has a filename and parses into a table
\* that lacks a required column ends with status 400 and the message listing
\* the required columns, and neither vectorizer nor classifier is run.
C7_ParsedMissingColumn400 ==
    \A s \in Slots :
        (/\ LacksColumn(req[s].upload)
         /\ req[s].upload.filename # ""
         /\ req[s].upload.parses) =>
            /\ req[s].calls \subseteq {"read_csv"}
            /\ req[s].pc \in {"idle", "check_file", "read_csv", "check_columns", "done"}
            /\ Done(s) => req[s].response =
                            [NoResponse EXCEPT !.status = 400, !.error = ColumnsMessage,
                                               !.columns = required_columns]

C7_Witness ==
    \E s \in Slots :
        /\ Done(s)
        /\ req[s].upload.parses
        /\ req[s].upload.columns = {"tweetText"}
        /\ req[s].response.status = 400

----------------------------------------------------------------------------
\* C8: when a step raises, the response is status 500 with the body
\* {"error": "Internal server error"} and nothing else (no record, not the
\* exception text), the exception text is in the server log by the time the
\* response is returned, and no response is produced before that.
C8_WholeRequestFails ==
    \A s \in Slots :
        /\ (req[s].pc = "except") => (req[s].exc # "" /\ req[s].response = NoResponse)
        /\ (Done(s) /\ req[s].exc # "") =>
              /\ req[s].response = [NoResponse EXCEPT !.status = 500,
                                                      !.error = InternalMessage]
              /\ req[s].response.error # req[s].exc
              /\ req[s].log # <<>>
              /\ req[s].log[Len(req[s].log)] =
                    [level |-> "ERROR", message |-> req[s].exc, data |-> <<>>]
        /\ (Done(s) /\ req[s].response.status = 500) => req[s].exc # ""

C8_Witness ==
    \E s \in Slots :
        /\ Done(s)
        /\ req[s].response.status = 500
        /\ ValidTable(req[s].upload)
        /\ Len(req[s].results) >= 1
        /\ req[s].i = 2

----------------------------------------------------------------------------
\* C9: in a 200 response the geo of a record is null when its row's geo cell
\* is empty, null, an empty string or zero, and the cell's value otherwise.
C9_GeoNullWhenFalsy ==
    \A s \in Slots :
        Done200(s) =>
            \A k \in 1..Len(req[s].response.records) :
                LET rec == req[s].response.records[k]
                    cell == ParsedGeo(req[s].upload, rec.row)
                IN IF cell.kind \in {"nan", "none"} \/ cell = Num(0) \/ cell = Str("")
                   THEN rec.geo = None
                   ELSE rec.geo = cell

----------------------------------------------------------------------------
\* C10: no step writes the artifact or the label list, and two requests with
\* the same upload get the same response whatever ran before or beside them.
GlobalsKept == loaded_obj' = loaded_obj /\ symptom_labels' = symptom_labels

SameResponse ==
    \A s, t \in Slots :
        (Done(s) /\ Done(t) /\ req[s].upload = req[t].upload) =>
            req[s].response = req[t].response

C10_Isolation ==
    /\ [](symptom_labels = SymptomLabels)
    /\ [][GlobalsKept]_vars
    /\ []SameResponse

C10_Witness ==
    /\ Done200(1)
    /\ req[2].pc = "respond"
    /\ req[1].upload = req[2].upload
    /\ Len(req[1].response.records) = 2
    /\ req[1].response.records[1].row = 2

====
